---- MODULE Spec2Model ----
(***************************************************************************)
(* Model of reservation_system.py: the three JSON collections (hotels,     *)
(* customers, reservations), the Hotel and Customer objects a caller holds *)
(* in memory, and one action per public operation.  Every operation is a   *)
(* full load / mutate / save round trip on the collection files.  The      *)
(* model covers the fault-free storage path: load_data returns what the    *)
(* last save_data wrote.                                                   *)
(***************************************************************************)
EXTENDS Integers, Sequences, FiniteSets, TLC

\* ------------------------------------------------------------------ bounds
\* successful calls of create_reservation in one run
MaxReservations == 2
\* largest total_rooms a caller passes to create_hotel / modify_info
MaxRooms == 1
\* largest available_rooms kept: modify_info calls that would push
\* available_rooms beyond it are not made (the value can grow without limit
\* when objects that are out of date are used)
MaxAvailable == 2
\* successful calls of create_hotel in one run of the specification that
\* creates several hotels
MaxHotels == 2

\* the caller's variables that hold Hotel / Customer objects
HotelVars == {"h", "g"}
CustomerVars == {"c"}
RoomCounts == 0..MaxRooms

\* uuid4(): the n-th identifier drawn for each kind of entity; identifiers
\* of different kinds never coincide
Kinds == {"hotel", "customer", "reservation"}
uuid4(kind, n) == <<kind, n>>
HotelIds == {uuid4("hotel", 1)}
CustomerIds == {uuid4("customer", 1)}
MoreHotelIds == {uuid4("hotel", n) : n \in 1..MaxHotels}
ReservationIds == {uuid4("reservation", n) : n \in 1..MaxReservations}
\* identifiers a caller may pass to get / delete / cancel
Uuids == HotelIds \cup CustomerIds \cup ReservationIds

\* Python's None, and a value that is present
None == <<>>
Some(x) == <<x>>
\* `if name:` is false for None and for the empty string
Truthy(opt) == opt # None /\ opt[1] # ""

\* argument values of the callers
HotelNames == {"A"}
Locations == {"X"}
CustomerNames == {"A"}
Emails == {"e"}
Phones == {"p"}
NameArgs == {None, Some("A")}
LocationArgs == {None}
EmailArgs == {None}
PhoneArgs == {None}
TotalArgs == {None} \cup {Some(n) : n \in RoomCounts}
\* datetime.now().strftime(...)
Dates == {"2025-01-01 00:00:00"}

VARIABLES
    hotels,         \* contents of HOTELS_FILE: a sequence of hotel records
    customers,      \* contents of CUSTOMERS_FILE
    reservations,   \* contents of RESERVATIONS_FILE
    uuids,          \* kind -> number of uuid4() values drawn so far
    hvar,           \* caller variable -> Hotel object (its __dict__)
    cvar,           \* caller variable -> Customer object (its __dict__)
    last,           \* the last call: operation, arguments, return value
    calls           \* caller variable -> its reserve_room call that is under
                    \* way or has returned, when calls are made step by step

vars == <<hotels, customers, reservations, uuids, hvar, cvar, last, calls>>

\* ------------------------------------------------------- persistence layer
load_data(file) == file

save_data(file, data) == data

\* index of the first record of data whose field key equals id, 0 if none
\* (the `for ... if ... break` scans)
FirstMatch(data, key, id) ==
    IF \E i \in 1..Len(data) : data[i][key] = id
    THEN CHOOSE i \in 1..Len(data) :
            /\ data[i][key] = id
            /\ \A j \in 1..(i - 1) : data[j][key] # id
    ELSE 0

\* ------------------------------------------------------------------- Hotel
HotelInit(hotel_id, name, location, total_rooms, available_rooms) ==
    [hotel_id |-> hotel_id, name |-> name, location |-> location,
     total_rooms |-> total_rooms, available_rooms |-> available_rooms]

\* create_hotel that saves the new record alone, without load_data
create_hotel_no_load(file, hotel_id, name, location, total_rooms) ==
    LET new_hotel == HotelInit(hotel_id, name, location, total_rooms, total_rooms)
    IN [ret |-> new_hotel, file |-> save_data(file, <<new_hotel>>)]

create_hotel(file, hotel_id, name, location, total_rooms) ==
    LET new_hotel == HotelInit(hotel_id, name, location, total_rooms, total_rooms)
        data == load_data(file)
    IN [ret |-> new_hotel, file |-> save_data(file, Append(data, new_hotel))]

delete_hotel(file, hotel_id) ==
    LET data == load_data(file)
        updated_hotels == SelectSeq(data, LAMBDA h : h.hotel_id # hotel_id)
    IN IF Len(updated_hotels) = Len(data)
       THEN file
       ELSE save_data(file, updated_hotels)

get_hotel(file, hotel_id) ==
    LET data == load_data(file)
        i == FirstMatch(data, "hotel_id", hotel_id)
    IN IF i = 0 THEN None ELSE Some(data[i])

\* the load / set available_rooms of the matching record / save of
\* reserve_room and cancel_room
StoreAvailable(file, self) ==
    LET data == load_data(file)
        i == FirstMatch(data, "hotel_id", self.hotel_id)
    IN save_data(file, IF i = 0 THEN data
                       ELSE [data EXCEPT ![i].available_rooms = self.available_rooms])

\* modify_info with `if total_rooms:` in place of `if total_rooms is not None:`
Hotel_modify_info_truthy(self, name, location, total_rooms, file) ==
    LET s1 == IF Truthy(name) THEN [self EXCEPT !.name = name[1]] ELSE self
        s2 == IF Truthy(location) THEN [s1 EXCEPT !.location = location[1]] ELSE s1
        s3 == IF total_rooms # None /\ total_rooms[1] # 0
              THEN LET difference == total_rooms[1] - s2.total_rooms
                       shifted == s2.available_rooms + difference
                   IN [s2 EXCEPT !.total_rooms = total_rooms[1],
                                 !.available_rooms = IF shifted < 0 THEN 0 ELSE shifted]
              ELSE s2
        data == load_data(file)
        i == FirstMatch(data, "hotel_id", s3.hotel_id)
    IN [self |-> s3,
        file |-> save_data(file, IF i = 0 THEN data ELSE [data EXCEPT ![i] = s3])]

\* modify_info that appends the object when no record has its id
Hotel_modify_info_upsert(self, name, location, total_rooms, file) ==
    LET s1 == IF Truthy(name) THEN [self EXCEPT !.name = name[1]] ELSE self
        s2 == IF Truthy(location) THEN [s1 EXCEPT !.location = location[1]] ELSE s1
        s3 == IF total_rooms # None
              THEN LET difference == total_rooms[1] - s2.total_rooms
                       shifted == s2.available_rooms + difference
                   IN [s2 EXCEPT !.total_rooms = total_rooms[1],
                                 !.available_rooms = IF shifted < 0 THEN 0 ELSE shifted]
              ELSE s2
        data == load_data(file)
        i == FirstMatch(data, "hotel_id", s3.hotel_id)
    IN [self |-> s3,
        file |-> save_data(file, IF i = 0 THEN Append(data, s3)
                                 ELSE [data EXCEPT ![i] = s3])]

\* modify_info without `if self.available_rooms < 0: self.available_rooms = 0`
Hotel_modify_info_no_floor(self, name, location, total_rooms, file) ==
    LET s1 == IF Truthy(name) THEN [self EXCEPT !.name = name[1]] ELSE self
        s2 == IF Truthy(location) THEN [s1 EXCEPT !.location = location[1]] ELSE s1
        s3 == IF total_rooms # None
              THEN LET difference == total_rooms[1] - s2.total_rooms
                   IN [s2 EXCEPT !.total_rooms = total_rooms[1],
                                 !.available_rooms = s2.available_rooms + difference]
              ELSE s2
        data == load_data(file)
        i == FirstMatch(data, "hotel_id", s3.hotel_id)
    IN [self |-> s3,
        file |-> save_data(file, IF i = 0 THEN data ELSE [data EXCEPT ![i] = s3])]

Hotel_modify_info(self, name, location, total_rooms, file) ==
    LET s1 == IF Truthy(name) THEN [self EXCEPT !.name = name[1]] ELSE self
        s2 == IF Truthy(location) THEN [s1 EXCEPT !.location = location[1]] ELSE s1
        s3 == IF total_rooms # None
              THEN LET difference == total_rooms[1] - s2.total_rooms
                       shifted == s2.available_rooms + difference
                   IN [s2 EXCEPT !.total_rooms = total_rooms[1],
                                 !.available_rooms = IF shifted < 0 THEN 0 ELSE shifted]
              ELSE s2
        data == load_data(file)
        i == FirstMatch(data, "hotel_id", s3.hotel_id)
    IN [self |-> s3,
        file |-> save_data(file, IF i = 0 THEN data ELSE [data EXCEPT ![i] = s3])]

\* reserve_room with `>= 0` in place of `> 0`
reserve_room_nonneg(self, file) ==
    IF self.available_rooms >= 0
    THEN LET s == [self EXCEPT !.available_rooms = @ - 1]
         IN [self |-> s, file |-> StoreAvailable(file, s), ret |-> TRUE]
    ELSE [self |-> self, file |-> file, ret |-> FALSE]

reserve_room(self, file) ==
    IF self.available_rooms > 0
    THEN LET s == [self EXCEPT !.available_rooms = @ - 1]
         IN [self |-> s, file |-> StoreAvailable(file, s), ret |-> TRUE]
    ELSE [self |-> self, file |-> file, ret |-> FALSE]

\* reserve_room in two steps, for callers that run at the same time: the
\* test, the decrement of the object and load_data ...
reserve_room_load(self, file) ==
    IF self.available_rooms > 0
    THEN [ok |-> TRUE, self |-> [self EXCEPT !.available_rooms = @ - 1],
          data |-> load_data(file)]
    ELSE [ok |-> FALSE, self |-> self, data |-> <<>>]

\* the second step without save_data
reserve_room_save_skipped(self, file, data) == file

\* ... and the update of the matching record of the loaded data, save_data
reserve_room_save(self, file, data) ==
    LET i == FirstMatch(data, "hotel_id", self.hotel_id)
    IN save_data(file, IF i = 0 THEN data
                       ELSE [data EXCEPT ![i].available_rooms = self.available_rooms])

\* cancel_room that increments the object and does not save
cancel_room_unsaved(self, file) ==
    IF self.available_rooms < self.total_rooms
    THEN LET s == [self EXCEPT !.available_rooms = @ + 1]
         IN [self |-> s, file |-> file, ret |-> TRUE]
    ELSE [self |-> self, file |-> file, ret |-> FALSE]

cancel_room(self, file) ==
    IF self.available_rooms < self.total_rooms
    THEN LET s == [self EXCEPT !.available_rooms = @ + 1]
         IN [self |-> s, file |-> StoreAvailable(file, s), ret |-> TRUE]
    ELSE [self |-> self, file |-> file, ret |-> FALSE]

\* ---------------------------------------------------------------- Customer
CustomerInit(customer_id, name, email, phone) ==
    [customer_id |-> customer_id, name |-> name, email |-> email, phone |-> phone]

create_customer(file, customer_id, name, email, phone) ==
    LET new_customer == CustomerInit(customer_id, name, email, phone)
        data == load_data(file)
    IN [ret |-> new_customer, file |-> save_data(file, Append(data, new_customer))]

delete_customer(file, customer_id) ==
    LET data == load_data(file)
        updated_customers == SelectSeq(data, LAMBDA c : c.customer_id # customer_id)
    IN IF Len(updated_customers) = Len(data)
       THEN file
       ELSE save_data(file, updated_customers)

get_customer(file, customer_id) ==
    LET data == load_data(file)
        i == FirstMatch(data, "customer_id", customer_id)
    IN IF i = 0 THEN None ELSE Some(data[i])

Customer_modify_info(self, name, email, phone, file) ==
    LET s1 == IF Truthy(name) THEN [self EXCEPT !.name = name[1]] ELSE self
        s2 == IF Truthy(email) THEN [s1 EXCEPT !.email = email[1]] ELSE s1
        s3 == IF Truthy(phone) THEN [s2 EXCEPT !.phone = phone[1]] ELSE s2
        data == load_data(file)
        i == FirstMatch(data, "customer_id", s3.customer_id)
    IN [self |-> s3,
        file |-> save_data(file, IF i = 0 THEN data ELSE [data EXCEPT ![i] = s3])]

\* ------------------------------------------------------------- Reservation
ReservationInit(reservation_id, customer_id, hotel_id, reservation_date) ==
    [reservation_id |-> reservation_id, customer_id |-> customer_id,
     hotel_id |-> hotel_id, reservation_date |-> reservation_date]

\* An argument value is [kind, obj]: kind is the class of the value
\* ("Customer", "Hotel", or "str" for a bare string), obj the object.
isinstance(arg, class) == arg.kind = class

\* create_reservation with `and` in place of `or` in the validation: a
\* bare-string customer with a valid Hotel gets past it, the room is reserved
\* and reading customer_id of the string then raises
create_reservation_and(customer_instance, hotel_instance, hotels_file, reservations_file, new_uuid, now) ==
    IF ~isinstance(customer_instance, "Customer") /\ ~isinstance(hotel_instance, "Hotel")
    THEN [ret |-> None, hotel |-> hotel_instance, hotels |-> hotels_file,
          reservations |-> reservations_file, drawn |-> FALSE]
    ELSE IF ~isinstance(hotel_instance, "Hotel")
    THEN [ret |-> None, hotel |-> hotel_instance, hotels |-> hotels_file,
          reservations |-> reservations_file, drawn |-> FALSE]
    ELSE LET r == reserve_room(hotel_instance.obj, hotels_file)
         IN IF ~r.ret \/ ~isinstance(customer_instance, "Customer")
            THEN [ret |-> None, hotel |-> [hotel_instance EXCEPT !.obj = r.self],
                  hotels |-> r.file, reservations |-> reservations_file,
                  drawn |-> FALSE]
            ELSE LET new_reservation ==
                         ReservationInit(new_uuid, customer_instance.obj.customer_id,
                                         r.self.hotel_id, now)
                     data == load_data(reservations_file)
                 IN [ret |-> Some(new_reservation),
                     hotel |-> [hotel_instance EXCEPT !.obj = r.self],
                     hotels |-> r.file,
                     reservations |-> save_data(reservations_file,
                                                Append(data, new_reservation)),
                     drawn |-> TRUE]

\* Returns the returned value, the hotel argument after the call, the two
\* files after the call, and whether a uuid was drawn.
create_reservation(customer_instance, hotel_instance, hotels_file, reservations_file, new_uuid, now) ==
    IF ~isinstance(customer_instance, "Customer") \/ ~isinstance(hotel_instance, "Hotel")
    THEN [ret |-> None, hotel |-> hotel_instance, hotels |-> hotels_file,
          reservations |-> reservations_file, drawn |-> FALSE]
    ELSE LET r == reserve_room(hotel_instance.obj, hotels_file)
         IN IF ~r.ret
            THEN [ret |-> None, hotel |-> [hotel_instance EXCEPT !.obj = r.self],
                  hotels |-> r.file, reservations |-> reservations_file,
                  drawn |-> FALSE]
            ELSE LET new_reservation ==
                         ReservationInit(new_uuid, customer_instance.obj.customer_id,
                                         r.self.hotel_id, now)
                     data == load_data(reservations_file)
                 IN [ret |-> Some(new_reservation),
                     hotel |-> [hotel_instance EXCEPT !.obj = r.self],
                     hotels |-> r.file,
                     reservations |-> save_data(reservations_file,
                                                Append(data, new_reservation)),
                     drawn |-> TRUE]

\* cancel_reservation that removes the record and never calls cancel_room
cancel_reservation_no_restore(reservation_id, reservations_file, hotels_file) ==
    LET data == load_data(reservations_file)
        i == FirstMatch(data, "reservation_id", reservation_id)
    IN IF i = 0
       THEN [ret |-> FALSE, hotels |-> hotels_file, reservations |-> reservations_file]
       ELSE [ret |-> TRUE, hotels |-> hotels_file,
             reservations |-> save_data(reservations_file,
                 SelectSeq(data, LAMBDA r : r.reservation_id # reservation_id))]

\* cancel_reservation that gives up, with the record kept, when the hotel of
\* the reservation has no record
cancel_reservation_needs_hotel(reservation_id, reservations_file, hotels_file) ==
    LET data == load_data(reservations_file)
        i == FirstMatch(data, "reservation_id", reservation_id)
    IN IF i = 0
       THEN [ret |-> FALSE, hotels |-> hotels_file, reservations |-> reservations_file]
       ELSE LET hotel_instance == get_hotel(hotels_file, data[i].hotel_id)
            IN IF hotel_instance = None
               THEN [ret |-> FALSE, hotels |-> hotels_file,
                     reservations |-> reservations_file]
               ELSE [ret |-> TRUE,
                     hotels |-> cancel_room(hotel_instance[1], hotels_file).file,
                     reservations |-> save_data(reservations_file,
                         SelectSeq(data, LAMBDA r : r.reservation_id # reservation_id))]

\* cancel_reservation without the return for an id that has no record
cancel_reservation_no_return(reservation_id, reservations_file, hotels_file) ==
    LET data == load_data(reservations_file)
        i == FirstMatch(data, "reservation_id", reservation_id)
        hotel_instance == IF i = 0 THEN None ELSE get_hotel(hotels_file, data[i].hotel_id)
        after == IF hotel_instance # None
                 THEN cancel_room(hotel_instance[1], hotels_file).file
                 ELSE hotels_file
        updated_reservations ==
            SelectSeq(data, LAMBDA r : r.reservation_id # reservation_id)
    IN [ret |-> TRUE, hotels |-> after,
        reservations |-> save_data(reservations_file, updated_reservations)]

cancel_reservation(reservation_id, reservations_file, hotels_file) ==
    LET data == load_data(reservations_file)
        i == FirstMatch(data, "reservation_id", reservation_id)
    IN IF i = 0
       THEN [ret |-> FALSE, hotels |-> hotels_file, reservations |-> reservations_file]
       ELSE LET hotel_instance == get_hotel(hotels_file, data[i].hotel_id)
                after == IF hotel_instance # None
                         THEN cancel_room(hotel_instance[1], hotels_file).file
                         ELSE hotels_file
                updated_reservations ==
                    SelectSeq(data, LAMBDA r : r.reservation_id # reservation_id)
            IN [ret |-> TRUE, hotels |-> after,
                reservations |-> save_data(reservations_file, updated_reservations)]

\* ----------------------------------------------------------------- callers
\* v := value  (None leaves the variable holding no object)
Assign(f, v, opt) ==
    IF opt = None
    THEN [x \in DOMAIN f \ {v} |-> f[x]]
    ELSE [x \in DOMAIN f \cup {v} |-> IF x = v THEN opt[1] ELSE f[x]]

\* the object equals a record of the hotels file, field for field
Synced(self) == \E i \in 1..Len(hotels) : hotels[i] = self

NoVar == "-"
NoId == <<"-", 0>>
NoArg == [kind |-> "none", var |-> NoVar]

\* synced: the Hotel object the call was made on (or was given) equalled its
\* persisted record when the call was made
Call(op, self, id, carg, harg, total_rooms, ret, synced) ==
    [op |-> op, self |-> self, id |-> id, carg |-> carg, harg |-> harg,
     total_rooms |-> total_rooms, ret |-> ret, synced |-> synced,
     undoes |-> FALSE, repeats |-> FALSE]

\* undoes: the call comes directly after the successful reserve_room on the
\* same variable / create_reservation of the same reservation, which was made
\* on a Hotel object that equalled its persisted record
UndoesReserve(v) ==
    last.op = "reserve_room" /\ last.self = v /\ last.ret /\ last.synced

UndoesCreate(reservation_id) ==
    /\ last.op = "create_reservation"
    /\ last.ret # None
    /\ last.ret[1].reservation_id = reservation_id
    /\ last.synced

\* repeats: the call comes directly after a successful cancel_reservation of
\* the same id
RepeatsCancel(reservation_id) ==
    last.op = "cancel_reservation" /\ last.id = reservation_id /\ last.ret

\* what the caller can pass as the customer / the hotel of a reservation
CustomerArgs == {[kind |-> "Customer", var |-> w] : w \in DOMAIN cvar}
                    \cup {[kind |-> "str", var |-> NoVar]}
HotelArgs == {[kind |-> "Hotel", var |-> v] : v \in DOMAIN hvar}
                 \cup {[kind |-> "str", var |-> NoVar]}

ArgValue(arg) ==
    CASE arg.kind = "Customer" -> [kind |-> "Customer", obj |-> cvar[arg.var]]
      [] arg.kind = "Hotel" -> [kind |-> "Hotel", obj |-> hvar[arg.var]]
      [] OTHER -> [kind |-> "str", obj |-> "not_an_entity"]

\* state after ensure_data_files() on an empty data directory
Init ==
    /\ hotels = <<>>
    /\ customers = <<>>
    /\ reservations = <<>>
    /\ uuids = [k \in Kinds |-> 0]
    /\ hvar = <<>>
    /\ cvar = <<>>
    /\ last = Call("init", NoVar, NoId, NoArg, NoArg, None, None, FALSE)
    /\ calls = <<>>

\* v = Hotel.create_hotel(name, location, total_rooms), the identifier drawn
\* being one of the pool
CreateHotelFrom(pool) ==
    \E v \in HotelVars, name \in HotelNames, location \in Locations,
       total_rooms \in RoomCounts :
        /\ uuid4("hotel", uuids["hotel"] + 1) \in pool
        /\ LET hotel_id == uuid4("hotel", uuids["hotel"] + 1)
               r == create_hotel(hotels, hotel_id, name, location, total_rooms)
           IN /\ hotels' = r.file
              /\ hvar' = Assign(hvar, v, Some(r.ret))
              /\ last' = Call("create_hotel", v, hotel_id, NoArg, NoArg,
                              Some(total_rooms), Some(r.ret), FALSE)
        /\ uuids' = [uuids EXCEPT !["hotel"] = @ + 1]
        /\ UNCHANGED <<calls, customers, reservations, cvar>>

CreateHotel == CreateHotelFrom(HotelIds)

\* create_hotel called up to MaxHotels times
CreateHotels == CreateHotelFrom(MoreHotelIds)

GetHotel ==
    \E v \in HotelVars, hotel_id \in Uuids :
        /\ LET r == get_hotel(hotels, hotel_id)
           IN /\ hvar' = Assign(hvar, v, r)
              /\ last' = Call("get_hotel", v, hotel_id, NoArg, NoArg, None, r, FALSE)
        /\ UNCHANGED <<calls, hotels, customers, reservations, uuids, cvar>>

\* delete_hotel that also removes the reservations of the hotel
DeleteHotelCascade ==
    \E hotel_id \in Uuids :
        /\ hotels' = delete_hotel(hotels, hotel_id)
        /\ reservations' = SelectSeq(reservations, LAMBDA r : r.hotel_id # hotel_id)
        /\ last' = Call("delete_hotel", NoVar, hotel_id, NoArg, NoArg, None, None, FALSE)
        /\ UNCHANGED <<calls, customers, uuids, hvar, cvar>>

DeleteHotel ==
    \E hotel_id \in Uuids :
        /\ hotels' = delete_hotel(hotels, hotel_id)
        /\ last' = Call("delete_hotel", NoVar, hotel_id, NoArg, NoArg, None, None, FALSE)
        /\ UNCHANGED <<calls, customers, reservations, uuids, hvar, cvar>>

\* hvar[v].modify_info(name, location, total_rooms)
HotelModifyInfoWith(v, name, location, total_rooms) ==
        /\ LET r == Hotel_modify_info(hvar[v], name, location, total_rooms, hotels)
           IN /\ r.self.available_rooms <= MaxAvailable
              /\ hotels' = r.file
              /\ hvar' = [hvar EXCEPT ![v] = r.self]
        /\ last' = Call("Hotel.modify_info", v, hvar[v].hotel_id, NoArg, NoArg,
                        total_rooms, None, Synced(hvar[v]))
        /\ UNCHANGED <<calls, customers, reservations, uuids, cvar>>

HotelModifyInfo ==
    \E v \in DOMAIN hvar, name \in NameArgs, location \in LocationArgs,
       total_rooms \in TotalArgs :
        HotelModifyInfoWith(v, name, location, total_rooms)

\* modify_info with total_rooms omitted
HotelRename ==
    \E v \in DOMAIN hvar, name \in NameArgs, location \in LocationArgs :
        HotelModifyInfoWith(v, name, location, None)

ReserveRoom ==
    \E v \in DOMAIN hvar :
        /\ LET r == reserve_room(hvar[v], hotels)
           IN /\ hotels' = r.file
              /\ hvar' = [hvar EXCEPT ![v] = r.self]
              /\ last' = Call("reserve_room", v, hvar[v].hotel_id, NoArg, NoArg,
                              None, r.ret, Synced(hvar[v]))
        /\ UNCHANGED <<calls, customers, reservations, uuids, cvar>>

\* persisted available_rooms of the hotel of the object, -1 without a record
Persisted(self) ==
    LET i == FirstMatch(hotels, "hotel_id", self.hotel_id)
    IN IF i = 0 THEN -1 ELSE hotels[i].available_rooms

\* the callers other than v whose reserve_room call is under way
UnderWay(v) == {w \in DOMAIN calls \ {v} : calls[w].pc = "loaded"}

\* hvar[v].reserve_room() up to and including load_data; a call refused for
\* lack of rooms returns here.  seen, synced, during record the persisted
\* available_rooms, whether the object equalled its record, and the calls
\* under way, all when the call began.
ReserveRoomLoad ==
    \E v \in DOMAIN hvar :
        /\ v \in DOMAIN calls => calls[v].pc = "returned"
        /\ LET r == reserve_room_load(hvar[v], hotels)
               call == [pc |-> IF r.ok THEN "loaded" ELSE "returned",
                        self |-> r.self, data |-> r.data, ret |-> r.ok,
                        seen |-> Persisted(hvar[v]), synced |-> Synced(hvar[v]),
                        during |-> UnderWay(v)]
           IN /\ hvar' = [hvar EXCEPT ![v] = r.self]
              /\ calls' = [w \in DOMAIN calls \cup {v} |->
                              IF w = v THEN call
                              ELSE [calls[w] EXCEPT !.during = @ \ {v}]]
              /\ last' = IF r.ok THEN last
                         ELSE Call("reserve_room", v, hvar[v].hotel_id, NoArg, NoArg,
                                   None, FALSE, Synced(hvar[v]))
        /\ UNCHANGED <<hotels, customers, reservations, uuids, cvar>>

\* the rest of a reserve_room call under way: update of the loaded data,
\* save_data, return True
ReserveRoomSave ==
    \E v \in DOMAIN calls :
        /\ calls[v].pc = "loaded"
        /\ hotels' = reserve_room_save(calls[v].self, hotels, calls[v].data)
        /\ calls' = [calls EXCEPT ![v].pc = "returned", ![v].data = <<>>]
        /\ last' = Call("reserve_room", v, calls[v].self.hotel_id, NoArg, NoArg,
                        None, TRUE, calls[v].synced)
        /\ UNCHANGED <<customers, reservations, uuids, hvar, cvar>>

CancelRoom ==
    \E v \in DOMAIN hvar :
        /\ LET r == cancel_room(hvar[v], hotels)
           IN /\ hotels' = r.file
              /\ hvar' = [hvar EXCEPT ![v] = r.self]
              /\ last' = [Call("cancel_room", v, hvar[v].hotel_id, NoArg, NoArg,
                               None, r.ret, Synced(hvar[v]))
                           EXCEPT !.undoes = UndoesReserve(v)]
        /\ UNCHANGED <<calls, customers, reservations, uuids, cvar>>

CreateCustomer ==
    \E w \in CustomerVars, name \in CustomerNames, email \in Emails,
       phone \in Phones :
        /\ uuid4("customer", uuids["customer"] + 1) \in CustomerIds
        /\ LET customer_id == uuid4("customer", uuids["customer"] + 1)
               r == create_customer(customers, customer_id, name, email, phone)
           IN /\ customers' = r.file
              /\ cvar' = Assign(cvar, w, Some(r.ret))
              /\ last' = Call("create_customer", w, customer_id, NoArg, NoArg,
                              None, Some(r.ret), FALSE)
        /\ uuids' = [uuids EXCEPT !["customer"] = @ + 1]
        /\ UNCHANGED <<calls, hotels, reservations, hvar>>

GetCustomer ==
    \E w \in CustomerVars, customer_id \in Uuids :
        /\ LET r == get_customer(customers, customer_id)
           IN /\ cvar' = Assign(cvar, w, r)
              /\ last' = Call("get_customer", w, customer_id, NoArg, NoArg, None, r, FALSE)
        /\ UNCHANGED <<calls, hotels, customers, reservations, uuids, hvar>>

DeleteCustomer ==
    \E customer_id \in Uuids :
        /\ customers' = delete_customer(customers, customer_id)
        /\ last' = Call("delete_customer", NoVar, customer_id, NoArg, NoArg, None, None, FALSE)
        /\ UNCHANGED <<calls, hotels, reservations, uuids, hvar, cvar>>

CustomerModifyInfo ==
    \E w \in DOMAIN cvar, name \in NameArgs, email \in EmailArgs,
       phone \in PhoneArgs :
        /\ LET r == Customer_modify_info(cvar[w], name, email, phone, customers)
           IN /\ customers' = r.file
              /\ cvar' = [cvar EXCEPT ![w] = r.self]
        /\ last' = Call("Customer.modify_info", w, cvar[w].customer_id, NoArg, NoArg,
                        None, None, FALSE)
        /\ UNCHANGED <<calls, hotels, reservations, uuids, hvar>>

\* Reservation.create_reservation(carg, harg) for given caller arguments
CreateReservationWith(carg, harg) ==
    \E now \in Dates :
        LET r == create_reservation(ArgValue(carg), ArgValue(harg), hotels,
                                    reservations,
                                    uuid4("reservation", uuids["reservation"] + 1), now)
        IN /\ r.drawn => uuid4("reservation", uuids["reservation"] + 1) \in ReservationIds
           /\ hotels' = r.hotels
           /\ reservations' = r.reservations
           /\ hvar' = IF harg.kind = "Hotel"
                      THEN [hvar EXCEPT ![harg.var] = r.hotel.obj]
                      ELSE hvar
           /\ uuids' = IF r.drawn THEN [uuids EXCEPT !["reservation"] = @ + 1]
                       ELSE uuids
           /\ last' = Call("create_reservation", NoVar, NoId, carg, harg, None, r.ret,
                           harg.kind = "Hotel" /\ Synced(hvar[harg.var]))
              /\ UNCHANGED <<calls, customers, cvar>>

CreateReservation ==
    \E carg \in CustomerArgs, harg \in HotelArgs : CreateReservationWith(carg, harg)

\* create_reservation where a Hotel object passed in equals its persisted record
CreateReservationSynced ==
    \E carg \in CustomerArgs, harg \in HotelArgs :
        /\ harg.kind = "Hotel" => Synced(hvar[harg.var])
        /\ CreateReservationWith(carg, harg)

CancelReservation ==
    \E reservation_id \in Uuids :
        /\ LET r == cancel_reservation(reservation_id, reservations, hotels)
           IN /\ hotels' = r.hotels
              /\ reservations' = r.reservations
              /\ last' = [Call("cancel_reservation", NoVar, reservation_id, NoArg,
                               NoArg, None, r.ret, FALSE)
                           EXCEPT !.undoes = UndoesCreate(reservation_id),
                                  !.repeats = RepeatsCancel(reservation_id)]
        /\ UNCHANGED <<calls, customers, uuids, hvar, cvar>>

Next ==
    \/ CreateHotel
    \/ GetHotel
    \/ DeleteHotel
    \/ HotelModifyInfo
    \/ ReserveRoom
    \/ CancelRoom
    \/ CreateCustomer
    \/ GetCustomer
    \/ DeleteCustomer
    \/ CustomerModifyInfo
    \/ CreateReservation
    \/ CancelReservation

Spec == Init /\ [][Next]_vars

\* the Hotel operations alone
NextHotel ==
    \/ CreateHotel
    \/ GetHotel
    \/ DeleteHotel
    \/ HotelModifyInfo
    \/ ReserveRoom
    \/ CancelRoom

SpecHotel == Init /\ [][NextHotel]_vars

\* every operation, total_rooms never changed after create_hotel
NextFixedTotal ==
    \/ CreateHotel
    \/ GetHotel
    \/ DeleteHotel
    \/ HotelRename
    \/ ReserveRoom
    \/ CancelRoom
    \/ CreateCustomer
    \/ GetCustomer
    \/ DeleteCustomer
    \/ CustomerModifyInfo
    \/ CreateReservation
    \/ CancelReservation

SpecFixedTotal == Init /\ [][NextFixedTotal]_vars

\* total_rooms never changed, rooms taken and released only through
\* create_reservation and cancel_reservation
NextBooking ==
    \/ CreateHotel
    \/ GetHotel
    \/ CreateCustomer
    \/ GetCustomer
    \/ CreateReservation
    \/ CancelReservation

SpecBooking == Init /\ [][NextBooking]_vars

\* create_hotel, create_customer, create_reservation on an up-to-date Hotel
\* object, cancel_reservation; get_hotel is how a caller obtains such an object
NextSync ==
    \/ CreateHotel
    \/ GetHotel
    \/ CreateCustomer
    \/ CreateReservationSynced
    \/ CancelReservation

SpecSync == Init /\ [][NextSync]_vars

\* the Hotel and the Customer operations, no reservations
NextEntities ==
    \/ CreateHotel
    \/ GetHotel
    \/ DeleteHotel
    \/ HotelModifyInfo
    \/ ReserveRoom
    \/ CancelRoom
    \/ CreateCustomer
    \/ GetCustomer
    \/ DeleteCustomer
    \/ CustomerModifyInfo

SpecEntities == Init /\ [][NextEntities]_vars

\* several hotels: create_hotel, get_hotel, delete_hotel, reserve_room
NextHotels ==
    \/ CreateHotels
    \/ GetHotel
    \/ DeleteHotel
    \/ ReserveRoom

SpecHotels == Init /\ [][NextHotels]_vars

\* callers that run at the same time: create_hotel, get_hotel and
\* reserve_room calls whose load and save steps interleave
NextConcurrent ==
    \/ CreateHotel
    \/ GetHotel
    \/ ReserveRoomLoad
    \/ ReserveRoomSave

SpecConcurrent == Init /\ [][NextConcurrent]_vars

\* ================================================================== claims
\* the records of the hotels file with the given id, and their
\* available_rooms values
HotelRecords(file, hotel_id) ==
    {file[i] : i \in {j \in 1..Len(file) : file[j].hotel_id = hotel_id}}

AvailableOf(file, hotel_id) ==
    {r.available_rooms : r \in HotelRecords(file, hotel_id)}

\* number of reservation records that reference the hotel
Booked(hotel_id) ==
    Cardinality({j \in 1..Len(reservations) : reservations[j].hotel_id = hotel_id})

MaxOf(a, b) == IF a >= b THEN a ELSE b

\* C1: after every sequence of operations every persisted hotel record has
\* 0 <= available_rooms <= total_rooms.
C1_RoomBounds ==
    \A i \in 1..Len(hotels) :
        /\ 0 <= hotels[i].available_rooms
        /\ hotels[i].available_rooms <= hotels[i].total_rooms

\* C2: whenever create_reservation returns a reservation, the persisted
\* available_rooms of the hotel record with that hotel_id is, after the call,
\* exactly one less than before the call (stated for the calls made while
\* the hotel has a record).
C2_DecrementOnCreate ==
    [][(/\ last'.op = "create_reservation"
        /\ last'.ret # None
        /\ HotelRecords(hotels, last'.ret[1].hotel_id) # {})
       => LET hotel_id == last'.ret[1].hotel_id
          IN \E a \in AvailableOf(hotels, hotel_id) :
                 AvailableOf(hotels', hotel_id) = {a - 1}]_vars

\* C3: with total_rooms never changed and rooms taken and released only by
\* create_reservation and cancel_reservation, the reservation records that
\* reference a hotel never outnumber its total_rooms.
C3_NoOverbooking ==
    \A i \in 1..Len(hotels) : Booked(hotels[i].hotel_id) <= hotels[i].total_rooms

\* C4: reserve_room returns success if and only if the persisted
\* available_rooms of that hotel is greater than zero when it is called
\* (stated for the calls made while the hotel has a record).
C4_FreshSnapshot ==
    [][(/\ last'.op = "reserve_room"
        /\ HotelRecords(hotels, hvar[last'.self].hotel_id) # {})
       => (last'.ret <=>
             \E a \in AvailableOf(hotels, hvar[last'.self].hotel_id) : a > 0)]_vars

\* C5: using only create_hotel, create_customer, create_reservation on a Hotel
\* object equal to its persisted record, and cancel_reservation, every
\* persisted hotel has available_rooms = total_rooms - (number of reservation
\* records that reference it).
C5_AvailabilityTracksReservations ==
    \A i \in 1..Len(hotels) :
        hotels[i].available_rooms =
            hotels[i].total_rooms - Booked(hotels[i].hotel_id)

\* a reservation made after an earlier one was made and cancelled
C5_Witness ==
    /\ last.op = "create_reservation"
    /\ last.ret # None
    /\ uuids["reservation"] = 2
    /\ Len(reservations) = 1
    /\ \E i \in 1..Len(hotels) :
           /\ hotels[i].hotel_id = last.ret[1].hotel_id
           /\ hotels[i].available_rooms < hotels[i].total_rooms

\* C6: for a persisted hotel with available_rooms = A >= 1 and a Hotel object
\* equal to its record, create_reservation returns a reservation and the
\* persisted available_rooms becomes A - 1; cancel_reservation of that id
\* directly afterwards returns success, the persisted available_rooms is A
\* again (one more than after the creation) and the record is gone.
C6_RoundTrip ==
    [][/\ (/\ last'.op = "create_reservation"
           /\ last'.carg.kind = "Customer"
           /\ last'.harg.kind = "Hotel"
           /\ last'.synced
           /\ hvar[last'.harg.var].available_rooms >= 1)
          => /\ last'.ret # None
             /\ AvailableOf(hotels', hvar[last'.harg.var].hotel_id)
                    = {hvar[last'.harg.var].available_rooms - 1}
       /\ (last'.op = "cancel_reservation" /\ last'.undoes)
          => /\ last'.ret
             /\ \E a \in AvailableOf(hotels, last.ret[1].hotel_id) :
                    AvailableOf(hotels', last.ret[1].hotel_id) = {a + 1}
             /\ FirstMatch(reservations', "reservation_id", last'.id) = 0]_vars

\* C7: reserve_room on a Hotel object whose available_rooms is 0 returns
\* failure and changes neither the object nor any collection;
\* create_reservation with such a hotel returns None and appends no record.
C7_NoRoomNoChange ==
    [][/\ (last'.op = "reserve_room" /\ hvar[last'.self].available_rooms = 0)
          => /\ last'.ret = FALSE
             /\ UNCHANGED <<hotels, customers, reservations, hvar, cvar>>
       /\ (/\ last'.op = "create_reservation"
           /\ last'.harg.kind = "Hotel"
           /\ hvar[last'.harg.var].available_rooms = 0)
          => /\ last'.ret = None
             /\ UNCHANGED <<hotels, customers, reservations, hvar, cvar>>]_vars

\* create_reservation was refused for a valid customer and a Hotel object
\* that has rooms, none of them available
C7_Witness ==
    /\ last.op = "create_reservation"
    /\ last.carg.kind = "Customer"
    /\ last.harg.kind = "Hotel"
    /\ last.ret = None
    /\ hvar[last.harg.var].available_rooms = 0
    /\ hvar[last.harg.var].total_rooms > 0

\* C8: for a Hotel object with 0 < available_rooms <= total_rooms equal to its
\* persisted record, reserve_room succeeds and takes one room on the object
\* and in the record, and cancel_room directly afterwards on the same object
\* succeeds and gives the room back on the object and in the record.
C8_ReserveThenCancel ==
    [][/\ (/\ last'.op = "reserve_room"
           /\ last'.synced
           /\ 0 < hvar[last'.self].available_rooms
           /\ hvar[last'.self].available_rooms <= hvar[last'.self].total_rooms)
          => /\ last'.ret
             /\ hvar'[last'.self].available_rooms
                    = hvar[last'.self].available_rooms - 1
             /\ AvailableOf(hotels', hvar[last'.self].hotel_id)
                    = {hvar[last'.self].available_rooms - 1}
       /\ (/\ last'.op = "cancel_room"
           /\ last'.undoes
           /\ hvar[last'.self].available_rooms < hvar[last'.self].total_rooms)
          => /\ last'.ret
             /\ hvar'[last'.self].available_rooms
                    = hvar[last'.self].available_rooms + 1
             /\ AvailableOf(hotels', hvar[last'.self].hotel_id)
                    = {hvar[last'.self].available_rooms + 1}]_vars

\* cancel_room has succeeded directly after a successful reserve_room on the
\* same, up-to-date object, which again equals its record
C8_Witness ==
    /\ last.op = "cancel_room"
    /\ last.undoes
    /\ last.ret
    /\ Synced(hvar[last.self])
    /\ hvar[last.self].available_rooms > 0

\* C9: modify_info(total_rooms=T2) on a Hotel object with total_rooms T1 and
\* available_rooms A (0 <= A <= T1) whose record is in storage sets
\* total_rooms to T2 and available_rooms to max(0, A + (T2 - T1)) on the
\* object and in the record, and get_hotel then returns those values.
C9_ModifyTotal ==
    [][(/\ last'.op = "Hotel.modify_info"
        /\ last'.total_rooms # None
        /\ 0 <= hvar[last'.self].available_rooms
        /\ hvar[last'.self].available_rooms <= hvar[last'.self].total_rooms
        /\ HotelRecords(hotels, hvar[last'.self].hotel_id) # {})
       => LET o == hvar[last'.self]
              T2 == last'.total_rooms[1]
              A2 == MaxOf(0, o.available_rooms + (T2 - o.total_rooms))
              got == get_hotel(hotels', o.hotel_id)
          IN /\ hvar'[last'.self].total_rooms = T2
             /\ hvar'[last'.self].available_rooms = A2
             /\ got # None
             /\ got[1].total_rooms = T2
             /\ got[1].available_rooms = A2
             /\ \A r \in HotelRecords(hotels', o.hotel_id) :
                    r.total_rooms = T2 /\ r.available_rooms = A2]_vars

\* modify_info(total_rooms=0) was called on an object that was out of date
\* and left it, and its record, with no rooms (so it had 0 <= A <= T1 before)
C9_Witness ==
    /\ last.op = "Hotel.modify_info"
    /\ last.total_rooms = Some(0)
    /\ ~last.synced
    /\ hvar[last.self].available_rooms = 0
    /\ hvar[last.self] \in HotelRecords(hotels, hvar[last.self].hotel_id)

\* C10: create_reservation with a customer that is not a Customer object or
\* a hotel that is not a Hotel object returns None and changes nothing: not
\* the collections and not the Hotel object passed in.
C10_InvalidArguments ==
    [][(/\ last'.op = "create_reservation"
        /\ (last'.carg.kind # "Customer" \/ last'.harg.kind # "Hotel"))
       => /\ last'.ret = None
          /\ UNCHANGED <<hotels, customers, reservations, hvar, cvar, uuids>>]_vars

\* a bare string was passed as the customer with a Hotel object that is up to
\* date and has a room available
C10_Witness ==
    /\ last.op = "create_reservation"
    /\ last.carg.kind = "str"
    /\ last.harg.kind = "Hotel"
    /\ last.ret = None
    /\ last.synced
    /\ hvar[last.harg.var].available_rooms > 0

\* the records of the customers file with the given id
CustomerRecords(file, customer_id) ==
    {file[i] : i \in {j \in 1..Len(file) : file[j].customer_id = customer_id}}

\* C11: once the record of a hotel id (a customer id) that was handed out has
\* been removed, no operation brings a record with that id back - not
\* modify_info, reserve_room or cancel_room on an object obtained before the
\* deletion - and get_hotel (get_customer) of that id returns None.
C11_DeletedStaysDeleted ==
    [][/\ \A id \in HotelIds :
            (uuids["hotel"] >= id[2] /\ HotelRecords(hotels, id) = {})
            => /\ HotelRecords(hotels', id) = {}
               /\ get_hotel(hotels', id) = None
               /\ (last'.op = "get_hotel" /\ last'.id = id) => last'.ret = None
       /\ \A id \in CustomerIds :
            (uuids["customer"] >= id[2] /\ CustomerRecords(customers, id) = {})
            => /\ CustomerRecords(customers', id) = {}
               /\ get_customer(customers', id) = None
               /\ (last'.op = "get_customer" /\ last'.id = id) => last'.ret = None]_vars

\* modify_info(total_rooms=...) was called on a Hotel object whose record had
\* been deleted, the customer created was deleted too, and neither is back
C11_Witness ==
    /\ last.op = "Hotel.modify_info"
    /\ last.total_rooms # None
    /\ HotelRecords(hotels, last.id) = {}
    /\ uuids["customer"] >= 1
    /\ customers = <<>>
    /\ cvar # <<>>

\* C12: each of get_hotel, get_customer, delete_hotel, delete_customer,
\* reserve_room, cancel_room, create_reservation and cancel_reservation
\* returns None or False exactly when it fails (target not found, no
\* capacity, invalid argument), so the value returned on failure is never the
\* value returned on success.
C12_FailureDetectable ==
    [][/\ last'.op = "get_hotel"
          => (last'.ret = None <=> HotelRecords(hotels, last'.id) = {})
       /\ last'.op = "get_customer"
          => (last'.ret = None <=> CustomerRecords(customers, last'.id) = {})
       /\ last'.op = "delete_hotel"
          => (last'.ret = None <=> HotelRecords(hotels, last'.id) = {})
       /\ last'.op = "delete_customer"
          => (last'.ret = None <=> CustomerRecords(customers, last'.id) = {})
       /\ last'.op = "reserve_room"
          => (last'.ret = FALSE <=> hvar[last'.self].available_rooms <= 0)
       /\ last'.op = "cancel_room"
          => (last'.ret = FALSE <=>
                hvar[last'.self].available_rooms >= hvar[last'.self].total_rooms)
       /\ last'.op = "create_reservation"
          => (last'.ret = None <=>
                \/ last'.carg.kind # "Customer"
                \/ last'.harg.kind # "Hotel"
                \/ hvar[last'.harg.var].available_rooms <= 0)
       /\ last'.op = "cancel_reservation"
          => (last'.ret = FALSE <=>
                FirstMatch(reservations, "reservation_id", last'.id) = 0)]_vars

\* the reservations file without the records of the given id
WithoutReservation(file, reservation_id) ==
    SelectSeq(file, LAMBDA r : r.reservation_id # reservation_id)

\* C13: cancel_reservation(id) for an id that has a reservation record
\* returns True and removes that record, the other records kept; when no
\* hotel record has the reservation's hotel_id, or that hotel record has
\* available_rooms = total_rooms, the hotels file is left as it was.
C13_CancelAlwaysRemoves ==
    [][(/\ last'.op = "cancel_reservation"
        /\ FirstMatch(reservations, "reservation_id", last'.id) # 0)
       => LET r == reservations[FirstMatch(reservations, "reservation_id", last'.id)]
          IN /\ last'.ret = TRUE
             /\ reservations' = WithoutReservation(reservations, last'.id)
             /\ FirstMatch(reservations', "reservation_id", last'.id) = 0
             /\ (\/ HotelRecords(hotels, r.hotel_id) = {}
                 \/ \E h \in HotelRecords(hotels, r.hotel_id) :
                        h.available_rooms = h.total_rooms)
                => hotels' = hotels]_vars

\* a reservation was cancelled after its hotel had been deleted, another
\* reservation is still in the file
C13_Witness ==
    /\ last.op = "cancel_reservation"
    /\ last.ret = TRUE
    /\ uuids["hotel"] >= 1
    /\ hotels = <<>>
    /\ Len(reservations) = 1

\* C14: cancel_reservation(id) for an id that has no reservation record
\* returns False and leaves the three collections and the caller's objects
\* as they were; so a second cancel_reservation of an id directly after the
\* one that succeeded returns False and changes no available_rooms.
C14_CancelUnknown ==
    [][/\ (/\ last'.op = "cancel_reservation"
           /\ FirstMatch(reservations, "reservation_id", last'.id) = 0)
          => /\ last'.ret = FALSE
             /\ UNCHANGED <<hotels, customers, reservations, uuids, hvar, cvar>>
       /\ (last'.op = "cancel_reservation" /\ last'.repeats)
          => /\ last'.ret = FALSE
             /\ hotels' = hotels]_vars

\* the same reservation was cancelled a second time; the first cancellation
\* had given its room back
C14_Witness ==
    /\ last.op = "cancel_reservation"
    /\ last.repeats
    /\ last.ret = FALSE
    /\ \E i \in 1..Len(hotels) :
           hotels[i].available_rooms = hotels[i].total_rooms
               /\ hotels[i].total_rooms > 0

\* C15: delete_hotel leaves the reservations file and the customers file as
\* they were, delete_customer leaves the reservations file and the hotels
\* file as they were: the reservations that reference the deleted entity are
\* still there, field for field.
C15_NoCascade ==
    [][/\ last'.op = "delete_hotel"
          => reservations' = reservations /\ customers' = customers
       /\ last'.op = "delete_customer"
          => reservations' = reservations /\ hotels' = hotels]_vars

\* a hotel that has a reservation was deleted: the reservation and the
\* customer are still in their files
C15_Witness ==
    /\ last.op = "delete_hotel"
    /\ HotelRecords(hotels, last.id) = {}
    /\ \E j \in 1..Len(reservations) : reservations[j].hotel_id = last.id
    /\ customers # <<>>

\* C16: create_hotel(name, location, N) returns a Hotel whose id no record
\* and no object had before, with total_rooms = N and available_rooms = N,
\* and the hotels file afterwards is the file before with that record
\* appended: the records it had are unchanged and in the same order.
C16_CreateHotel ==
    [][last'.op = "create_hotel"
       => LET new_hotel == last'.ret[1]
              N == last'.total_rooms[1]
          IN /\ new_hotel.total_rooms = N
             /\ new_hotel.available_rooms = N
             /\ \A i \in 1..Len(hotels) : hotels[i].hotel_id # new_hotel.hotel_id
             /\ \A v \in DOMAIN hvar : hvar[v].hotel_id # new_hotel.hotel_id
             /\ hotels' = Append(hotels, new_hotel)
             /\ hvar'[last'.self] = new_hotel]_vars

\* a hotel with rooms was created while the file had the record of another
\* hotel, one of whose rooms was taken
C16_Witness ==
    /\ last.op = "create_hotel"
    /\ last.total_rooms # Some(0)
    /\ Len(hotels) >= 2
    /\ hotels[1].available_rooms < hotels[1].total_rooms
    /\ hotels[Len(hotels)] = last.ret[1]

\* C17: when the reserve_room calls of two callers on the same hotel, each
\* on an object equal to the record with available_rooms = A >= 1, overlap
\* (the second loads before the first has saved), both return True and the
\* persisted available_rooms is A - 1: two rooms handed out, one counted.
C17_LostUpdate ==
    \A v \in DOMAIN calls : \A w \in DOMAIN calls :
        (/\ v \in calls[w].during
         /\ calls[v].pc = "returned" /\ calls[w].pc = "returned"
         /\ calls[v].synced /\ calls[w].synced
         /\ calls[v].self.hotel_id = calls[w].self.hotel_id
         /\ calls[v].seen >= 1
         /\ calls[w].seen = calls[v].seen)
        => /\ calls[v].ret /\ calls[w].ret
           /\ Persisted(calls[v].self) = calls[v].seen - 1

\* both overlapping calls have returned True
C17_Witness ==
    \E v \in DOMAIN calls : \E w \in DOMAIN calls :
        /\ v \in calls[w].during
        /\ calls[v].pc = "returned" /\ calls[w].pc = "returned"
        /\ calls[v].synced /\ calls[w].synced
        /\ calls[v].seen >= 1
        /\ calls[w].seen = calls[v].seen
        /\ calls[v].ret /\ calls[w].ret
        /\ Persisted(calls[v].self) = calls[v].seen - 1

\* C18: modify_info with total_rooms >= 0 (or omitted) on a Hotel object with
\* 0 <= available_rooms <= total_rooms leaves the object with
\* 0 <= available_rooms <= total_rooms; so no sequence of modify_info calls,
\* decreases followed by increases included, breaks the bounds of the object.
C18_ModifyKeepsBounds ==
    [][(/\ last'.op = "Hotel.modify_info"
        /\ last'.total_rooms # None => last'.total_rooms[1] >= 0
        /\ 0 <= hvar[last'.self].available_rooms
        /\ hvar[last'.self].available_rooms <= hvar[last'.self].total_rooms)
       => /\ 0 <= hvar'[last'.self].available_rooms
          /\ hvar'[last'.self].available_rooms <= hvar'[last'.self].total_rooms]_vars

\* modify_info(total_rooms=T2), T2 > 0, was called on an object within the
\* bounds that had a room taken: it still has fewer rooms available than rooms
C18_Witness ==
    /\ last.op = "Hotel.modify_info"
    /\ last.total_rooms # None
    /\ last.total_rooms # Some(0)
    /\ 0 <= hvar[last.self].available_rooms
    /\ hvar[last.self].available_rooms < hvar[last.self].total_rooms

\* C19: modify_info with total_rooms omitted leaves the persisted total_rooms
\* and available_rooms of the hotel's record as they were, also when the
\* record was changed through another object after the object used for the
\* call was created or loaded.
C19_RenameKeepsRooms ==
    [][(last'.op = "Hotel.modify_info" /\ last'.total_rooms = None)
       => LET i == FirstMatch(hotels, "hotel_id", hvar[last'.self].hotel_id)
          IN i # 0 => /\ Len(hotels') = Len(hotels)
                      /\ hotels'[i].hotel_id = hotels[i].hotel_id
                      /\ hotels'[i].total_rooms = hotels[i].total_rooms
                      /\ hotels'[i].available_rooms = hotels[i].available_rooms]_vars

====
